---- MODULE Spec2Model ----
(***************************************************************************)
(* Model of the Mattermost auto-translate plugin: the MessageHasBeenPosted *)
(* hook (the event gate), the posts it creates and their re-delivery by    *)
(* the host.  The repository holds three revisions of the hook:            *)
(*   src/server/activate_hooks.go   (build "server")                       *)
(*   src/unnamed/part_000           (build "part_000")                     *)
(*   src/unnamed/part_001           (build "part_001")                     *)
(* The build that runs is fixed when the plugin is loaded.                 *)
(* An invocation of the hook advances from one blocking call (GetUser,     *)
(* getUserInfo, Translate, CreatePost) to the next; the host runs the      *)
(* invocations concurrently, so their steps interleave.                    *)
(***************************************************************************)
EXTENDS Naturals, Sequences, FiniteSets, TLC

\* running: the invocations of the hook that have started and not ended
VARIABLES build, configuration, store, queue, running, last, nUser, nCreated

\* cl: one run of the output sanitizer; llm: one call of a provider's
\* Translate; conc: two invocations of the hook running concurrently
VARIABLES cl, llm, conc

\* web: the requests served by the plugin's HTTP endpoint
VARIABLES web

hook == <<build, configuration, store, queue, running, last, nUser, nCreated>>

vars ==
    <<build, configuration, store, queue, running, last, nUser, nCreated, cl, llm, conc, web>>

(* ------------------------------ bounds -------------------------------- *)

\* user-authored messages the host delivers in one run
MaxUserMsgs == 1

\* posts the plugin may create in one run (caps the translate loop)
MaxPosts == 2

(* ------------------------------ strings ------------------------------- *)
\* A text is a sequence of tokens; a token is one white-space character or
\* a run of characters without white space.  A character that cannot be
\* written in a string of this module is written by its code point.

\* unicode.IsSpace, the characters strings.TrimSpace cuts off: the ASCII
\* ones, U+0085, U+00A0 and the space, line and paragraph separators
WhiteSpace ==
    {" ", "\t", "\n", "\r", "\f", "U+000B", "U+0085", "U+00A0", "U+1680", "U+2000", "U+2001",
     "U+2002", "U+2003", "U+2004", "U+2005", "U+2006", "U+2007", "U+2008", "U+2009", "U+200A",
     "U+2028", "U+2029", "U+202F", "U+205F", "U+3000"}

RECURSIVE TrimLeft(_)
TrimLeft(s) ==
    IF s = <<>> THEN <<>>
    ELSE IF Head(s) \in WhiteSpace THEN TrimLeft(Tail(s)) ELSE s

RECURSIVE TrimRight(_)
TrimRight(s) ==
    IF s = <<>> THEN <<>>
    ELSE IF s[Len(s)] \in WhiteSpace THEN TrimRight(SubSeq(s, 1, Len(s) - 1)) ELSE s

\* strings.TrimSpace
TrimSpace(s) == TrimRight(TrimLeft(s))

(* --------------------------- the environment -------------------------- *)

Builds == {"server", "part_000", "part_001"}

UserIds == {"alice", "bot", "ghost"}

\* p.API.GetUser: "ghost" does not resolve, "bot" is a bot account
GetUser(userId) ==
    [err |-> userId = "ghost", IsBot |-> userId = "bot"]

NoInfo == [found |-> FALSE, Activated |-> FALSE, SourceLanguage |-> "", TargetLanguage |-> ""]

UserInfo(activated, source, target) ==
    [found |-> TRUE, Activated |-> activated, SourceLanguage |-> source, TargetLanguage |-> target]

\* the preferences alice may have stored
UserInfos ==
    { NoInfo, UserInfo(FALSE, "ko", "en"), UserInfo(TRUE, "ko", "en"), UserInfo(TRUE, "auto", "en") }

\* the bot account and the deleted account "ghost" either both have an
\* activated preference left in the store, or both have none
Stores ==
    { [u \in UserIds |-> IF u = "alice" THEN i ELSE j] :
        i \in UserInfos, j \in {NoInfo, UserInfo(TRUE, "ko", "en")} }

\* preference store: Get(userID) -> UserPreference | NotFound
getUserInfo(kv, userId) == kv[userId]

Configurations ==
    [BotUsername : {"", "translator"}, BotIconURL : {"icon.png"}, Provider : {"", "vllm"}]

\* p.getTranslationProvider: fails when no provider kind is configured
getTranslationProvider(cfg) == [err |-> cfg.Provider = "", name |-> cfg.Provider]

NoProps == [k \in {} |-> TRUE]

\* the marker key, with either value: the key alone is what part_000 tests
Marked == { [from_plugin |-> v] : v \in BOOLEAN }

UserTexts == { <<"a", " ">> }

\* the texts Provider.Translate may return
TranslatedTexts == { <<>>, <<"U+00A0", "a">>, <<"b">> }

\* Translate returns an error, returns a text, or panics (the sanitizer on
\* a lone quote, the managed API without a session or without a text)
TranslateResults ==
    { [err |-> TRUE, text |-> <<>>, panic |-> FALSE] }
    \cup { [err |-> FALSE, text |-> t, panic |-> FALSE] : t \in TranslatedTexts }
    \cup { [err |-> FALSE, text |-> <<>>, panic |-> TRUE] }

\* the type of an ordinary post, of a system post and of a plugin's own
\* kind of post
PostTypes == {"", "system_join_channel", "custom_system_note"}

Post(id, userId, rootId, type, props, message) ==
    [Id |-> id, UserId |-> userId, ChannelId |-> "town", RootId |-> rootId,
     Message |-> message, Type |-> type, Props |-> props]

\* posts written by users (or sent through the host's API by anyone):
\* alice's ordinary posts, in a thread or not, with or without the marker;
\* ordinary and system posts of every account, with or without the marker;
\* a post of a plugin's own kind
UserPosts(id) ==
    { Post(id, "alice", r, "", pr, m) :
        r \in {"", "root0"}, pr \in {NoProps} \cup Marked, m \in UserTexts }
    \cup { Post(id, u, "", ty, pr, m) :
              u \in UserIds, ty \in PostTypes \ {"custom_system_note"},
              pr \in {NoProps, [from_plugin |-> TRUE]}, m \in UserTexts }
    \cup { Post(id, "alice", "", "custom_system_note", NoProps, m) : m \in UserTexts }

PostId(n) == "p" \o ToString(n)

(* ------------------------------ the hook ------------------------------ *)

\* mutant: the test of the post type is inverted
IsSystemMessage_inverted(post) ==
    ~(Len(post.Type) >= Len("system_") /\ SubSeq(post.Type, 1, Len("system_")) = "system_")

\* model.Post.IsSystemMessage: the type starts with "system_"
IsSystemMessage(post) ==
    Len(post.Type) >= Len("system_") /\ SubSeq(post.Type, 1, Len("system_")) = "system_"

\* the marker test of part_000: the key exists, whatever its value
HasMarker(post) == "from_plugin" \in DOMAIN post.Props

\* mutant: the bot check is dropped
IsBot_ignored(user) == FALSE

IsBot(user) == user.IsBot

\* mutant: the Activated flag is not looked at
NotActivated_ignored(userInfo) == FALSE

NotActivated(userInfo) == ~userInfo.Activated

\* mutant: the texts are compared without trimming
SameAsOriginal_untrimmed(translatedText, message) == translatedText = message

SameAsOriginal(translatedText, message) == TrimSpace(translatedText) = TrimSpace(message)

\* mutant: "auto" is shown as it is stored
sourceLangDisplay_raw(userInfo) == userInfo.SourceLanguage

sourceLangDisplay(userInfo) ==
    IF userInfo.SourceLanguage = "auto" THEN "detected" ELSE userInfo.SourceLanguage

botUsername(cfg) ==
    IF cfg.BotUsername = "" THEN "autotranslate-bot" ELSE cfg.BotUsername

\* fmt.Sprintf("**[%s -> %s]**\n%s", ...)
botMessage(userInfo, translatedText) ==
    <<"**", "[", sourceLangDisplay(userInfo), " ", "→", " ", userInfo.TargetLanguage, "]", "**", "\n">>
        \o translatedText

\* the outcome of one invocation: the posts handed to CreatePost, the log
\* entries written and the collaborator calls made, in order
Outcome(created, logs, calls) == [created |-> created, logs |-> logs, calls |-> calls]

\* mutant: the entry is written twice
LogError_twice(msg) == <<msg, msg>>

\* mutant: the entry is dropped
LogError_dropped(msg) == <<>>

\* p.API.LogError: one log entry
LogError(msg) == <<msg>>

\* mutant: the reply is built without the marker
translatedPost_unmarked(post, userInfo, translatedText, cfg) ==
    [Id |-> "", Type |-> "",
     ChannelId |-> post.ChannelId,
     UserId |-> post.UserId,
     RootId |-> post.Id,
     Message |-> <<"**", "[", userInfo.SourceLanguage, " ", "→", " ", userInfo.TargetLanguage,
                   "]", "**", "\n">> \o translatedText,
     Props |-> [override_username |-> IF cfg.BotUsername = "" THEN "autotranslate-bot"
                                      ELSE cfg.BotUsername,
                override_icon_url |-> cfg.BotIconURL,
                disable_group_highlight |-> TRUE]]

\* the post handed to CreatePost by src/server/activate_hooks.go
translatedPost(post, userInfo, translatedText, cfg) ==
    [Id |-> "", Type |-> "",
     ChannelId |-> post.ChannelId,
     UserId |-> post.UserId,
     RootId |-> post.Id,
     Message |-> botMessage(userInfo, translatedText),
     Props |-> [from_plugin |-> TRUE,
                override_username |-> botUsername(cfg),
                override_icon_url |-> cfg.BotIconURL,
                disable_group_highlight |-> TRUE]]

\* the attachment-styled post handed to CreatePost by src/unnamed/part_000
translatedPost_part000(post, userInfo, translatedText, cfg) ==
    [Id |-> "", Type |-> "",
     ChannelId |-> post.ChannelId,
     UserId |-> post.UserId,
     RootId |-> post.RootId,
     Message |-> <<>>,
     Props |-> [from_plugin |-> TRUE,
                override_username |-> botUsername(cfg),
                override_icon_url |-> cfg.BotIconURL,
                disable_group_highlight |-> TRUE,
                attachments |-> << [Text |-> translatedText,
                                    Pretext |-> <<"U+1F310", " ", "**Translation**", " ", "[",
                                                  sourceLangDisplay(userInfo), " ", "→", " ",
                                                  userInfo.TargetLanguage, "]">>,
                                    Color |-> "#3AA3E3"] >>]]

\* the post handed to CreatePost by src/unnamed/part_001
translatedPost_part001(post, userInfo, translatedText, cfg) ==
    [Id |-> "", Type |-> "",
     ChannelId |-> post.ChannelId,
     UserId |-> post.UserId,
     RootId |-> post.Id,
     Message |-> botMessage(userInfo, translatedText),
     Props |-> [from_plugin |-> TRUE,
                override_username |-> botUsername(cfg),
                override_icon_url |-> cfg.BotIconURL,
                disable_group_highlight |-> TRUE]]

(* ----------------------------- invocations --------------------------- *)

NoResult == [err |-> FALSE, text |-> <<>>, panic |-> FALSE]

\* an invocation of the hook on post, before its first statement: where it
\* stands, its local variables, what it has done and what it was answered
Invocation(post) ==
    [pc |-> "start", post |-> post, userInfo |-> NoInfo, translatedText |-> <<>>,
     out |-> Outcome(<<>>, <<>>, <<>>), tr |-> NoResult, cpErr |-> FALSE]

\* the invocation goes on to the call pc, having made calls
Goto(f, pc, calls) == [f EXCEPT !.pc = pc, !.out.calls = @ \o calls]

\* the invocation returns, having logged logs and made calls
Finish(f, logs, calls) ==
    [f EXCEPT !.pc = "done", !.out.logs = @ \o logs, !.out.calls = @ \o calls]

\* Plugin.MessageHasBeenPosted of src/server/activate_hooks.go, from where
\* invocation f stands up to its next call of a collaborator that blocks;
\* tr is what Provider.Translate answers and cpErr whether CreatePost fails
MessageHasBeenPosted(f, cfg, kv, tr, cpErr) ==
    CASE f.pc = "start" ->
            IF IsSystemMessage(f.post) THEN Finish(f, <<>>, <<>>)
            ELSE LET user == GetUser(f.post.UserId) IN
            IF user.err THEN Finish(f, LogError("Failed to get user"), <<"GetUser">>)
            ELSE IF IsBot(user) THEN Finish(f, <<>>, <<"GetUser">>)
            ELSE Goto(f, "getUserInfo", <<"GetUser">>)
      [] f.pc = "getUserInfo" ->
            LET userInfo == getUserInfo(kv, f.post.UserId) IN
            IF ~userInfo.found THEN Finish(f, <<>>, <<"getUserInfo">>)
            ELSE IF NotActivated(userInfo) THEN Finish(f, <<>>, <<"getUserInfo">>)
            ELSE LET provider == getTranslationProvider(cfg) IN
            IF provider.err
            THEN Finish(f, LogError("Failed to get translation provider"),
                        <<"getUserInfo", "getTranslationProvider">>)
            ELSE [Goto(f, "Translate", <<"getUserInfo", "getTranslationProvider">>)
                    EXCEPT !.userInfo = userInfo]
      [] f.pc = "Translate" ->
            IF tr.panic THEN [Goto(f, "panic", <<"Translate">>) EXCEPT !.tr = tr]
            ELSE IF tr.err
            THEN [Finish(f, LogError("Failed to translate message"), <<"Translate">>)
                    EXCEPT !.tr = tr]
            ELSE IF SameAsOriginal(tr.text, f.post.Message)
            THEN [Finish(f, <<>>, <<"Translate">>) EXCEPT !.tr = tr]
            ELSE [Goto(f, "CreatePost", <<"Translate">>)
                    EXCEPT !.tr = tr, !.translatedText = tr.text]
      [] f.pc = "CreatePost" ->
            [Finish(f, IF cpErr THEN LogError("Failed to post translated message") ELSE <<>>,
                    <<"CreatePost">>)
               EXCEPT !.cpErr = cpErr,
                      !.out.created = <<translatedPost(f.post, f.userInfo, f.translatedText, cfg)>>]
      [] OTHER -> f

\* Plugin.MessageHasBeenPosted of src/unnamed/part_000 (the marker check
\* follows the system-message check), from where
\* invocation f stands up to its next call of a collaborator that blocks;
\* tr is what Provider.Translate answers and cpErr whether CreatePost fails
MessageHasBeenPosted_part000(f, cfg, kv, tr, cpErr) ==
    CASE f.pc = "start" ->
            IF IsSystemMessage(f.post) THEN Finish(f, <<>>, <<>>)
            ELSE IF HasMarker(f.post) THEN Finish(f, <<>>, <<>>)
            ELSE LET user == GetUser(f.post.UserId) IN
            IF user.err THEN Finish(f, LogError("Failed to get user"), <<"GetUser">>)
            ELSE IF IsBot(user) THEN Finish(f, <<>>, <<"GetUser">>)
            ELSE Goto(f, "getUserInfo", <<"GetUser">>)
      [] f.pc = "getUserInfo" ->
            LET userInfo == getUserInfo(kv, f.post.UserId) IN
            IF ~userInfo.found THEN Finish(f, <<>>, <<"getUserInfo">>)
            ELSE IF NotActivated(userInfo) THEN Finish(f, <<>>, <<"getUserInfo">>)
            ELSE LET provider == getTranslationProvider(cfg) IN
            IF provider.err
            THEN Finish(f, LogError("Failed to get translation provider"),
                        <<"getUserInfo", "getTranslationProvider">>)
            ELSE [Goto(f, "Translate", <<"getUserInfo", "getTranslationProvider">>)
                    EXCEPT !.userInfo = userInfo]
      [] f.pc = "Translate" ->
            IF tr.panic THEN [Goto(f, "panic", <<"Translate">>) EXCEPT !.tr = tr]
            ELSE IF tr.err
            THEN [Finish(f, LogError("Failed to translate message"), <<"Translate">>)
                    EXCEPT !.tr = tr]
            ELSE IF SameAsOriginal(tr.text, f.post.Message)
            THEN [Finish(f, <<>>, <<"Translate">>) EXCEPT !.tr = tr]
            ELSE [Goto(f, "CreatePost", <<"Translate">>)
                    EXCEPT !.tr = tr, !.translatedText = tr.text]
      [] f.pc = "CreatePost" ->
            [Finish(f, IF cpErr THEN LogError("Failed to post translated message") ELSE <<>>,
                    <<"CreatePost">>)
               EXCEPT !.cpErr = cpErr,
                      !.out.created = <<translatedPost_part000(f.post, f.userInfo, f.translatedText, cfg)>>]
      [] OTHER -> f

\* Plugin.MessageHasBeenPosted of src/unnamed/part_001, from where
\* invocation f stands up to its next call of a collaborator that blocks;
\* tr is what Provider.Translate answers and cpErr whether CreatePost fails
MessageHasBeenPosted_part001(f, cfg, kv, tr, cpErr) ==
    CASE f.pc = "start" ->
            IF IsSystemMessage(f.post) THEN Finish(f, <<>>, <<>>)
            ELSE LET user == GetUser(f.post.UserId) IN
            IF user.err THEN Finish(f, LogError("Failed to get user"), <<"GetUser">>)
            ELSE IF IsBot(user) THEN Finish(f, <<>>, <<"GetUser">>)
            ELSE Goto(f, "getUserInfo", <<"GetUser">>)
      [] f.pc = "getUserInfo" ->
            LET userInfo == getUserInfo(kv, f.post.UserId) IN
            IF ~userInfo.found THEN Finish(f, <<>>, <<"getUserInfo">>)
            ELSE IF NotActivated(userInfo) THEN Finish(f, <<>>, <<"getUserInfo">>)
            ELSE LET provider == getTranslationProvider(cfg) IN
            IF provider.err
            THEN Finish(f, LogError("Failed to get translation provider"),
                        <<"getUserInfo", "getTranslationProvider">>)
            ELSE [Goto(f, "Translate", <<"getUserInfo", "getTranslationProvider">>)
                    EXCEPT !.userInfo = userInfo]
      [] f.pc = "Translate" ->
            IF tr.panic THEN [Goto(f, "panic", <<"Translate">>) EXCEPT !.tr = tr]
            ELSE IF tr.err
            THEN [Finish(f, LogError("Failed to translate message"), <<"Translate">>)
                    EXCEPT !.tr = tr]
            ELSE IF SameAsOriginal(tr.text, f.post.Message)
            THEN [Finish(f, <<>>, <<"Translate">>) EXCEPT !.tr = tr]
            ELSE [Goto(f, "CreatePost", <<"Translate">>)
                    EXCEPT !.tr = tr, !.translatedText = tr.text]
      [] f.pc = "CreatePost" ->
            [Finish(f, IF cpErr THEN LogError("Failed to post translated message") ELSE <<>>,
                    <<"CreatePost">>)
               EXCEPT !.cpErr = cpErr,
                      !.out.created = <<translatedPost_part001(f.post, f.userInfo, f.translatedText, cfg)>>]
      [] OTHER -> f

\* an invocation of src/server/activate_hooks.go on post that runs alone from
\* entry to return: what it did
WholeInvocation(post, cfg, kv, tr, cpErr) ==
    LET first == MessageHasBeenPosted(Invocation(post), cfg, kv, tr, cpErr)
        second == MessageHasBeenPosted(first, cfg, kv, tr, cpErr)
        third == MessageHasBeenPosted(second, cfg, kv, tr, cpErr)
    IN MessageHasBeenPosted(third, cfg, kv, tr, cpErr).out

(* --------------------------- the state machine ------------------------ *)

Called(out, api) == \E i \in DOMAIN out.calls : out.calls[i] = api

NoPost ==
    [Id |-> "", Type |-> "", ChannelId |-> "", UserId |-> "", RootId |-> "",
     Message |-> <<>>, Props |-> NoProps]

NoEvent ==
    [handled |-> FALSE, post |-> NoPost, out |-> Outcome(<<>>, <<>>, <<>>),
     tr |-> NoResult, cpErr |-> FALSE, panic |-> FALSE]

\* the event of an invocation that has ended: by a return, or by the panic
\* of Translate
Event(f) ==
    [handled |-> TRUE, post |-> f.post, out |-> f.out, tr |-> f.tr, cpErr |-> f.cpErr,
     panic |-> f.pc = "panic"]

\* nothing but the hook runs
Idle == [phase |-> "idle"]

Init ==
    /\ build \in Builds
    /\ configuration \in Configurations
    /\ store \in Stores
    /\ queue = <<>>
    /\ running = {}
    /\ last = NoEvent
    /\ nUser = 0
    /\ nCreated = 0
    /\ web = Idle
    /\ cl = Idle
    /\ llm = Idle
    /\ conc = Idle

\* the host delivers a message somebody posted
UserPost ==
    /\ nUser < MaxUserMsgs
    /\ \E post \in UserPosts(PostId(nUser + nCreated + 1)) :
           queue' = Append(queue, post)
    /\ nUser' = nUser + 1
    /\ UNCHANGED <<build, configuration, store, running, last, nCreated, cl, llm, conc, web>>

\* the host stores a created post and delivers it back as a new event
Delivered(post, n) == [post EXCEPT !.Id = PostId(n)]

\* invocation f (a new one takes the oldest pending event) has made a step
\* and stands at g.  A return ends it; the post it created is delivered as
\* a new event (after CreatePost the invocation does nothing but log and
\* return, so the new event is taken up from its return on).  An unrecovered
\* panic ends the plugin process and with it every invocation that is
\* running.
Advance(f, g) ==
    LET pending == IF f.pc = "start" THEN Tail(queue) ELSE queue
        ok == g.pc = "done" /\ g.out.created # <<>> /\ ~g.cpErr
    IN
    /\ nCreated + (IF ok THEN 1 ELSE 0) <= MaxPosts
    /\ queue' = IF ok
                THEN Append(pending, Delivered(g.out.created[1], nUser + nCreated + 1))
                ELSE pending
    /\ nCreated' = nCreated + (IF ok THEN 1 ELSE 0)
    /\ running' = CASE g.pc = "panic" -> {}
                    [] g.pc = "done" -> running \ {f}
                    [] OTHER -> (running \ {f}) \cup {g}
    /\ last' = IF g.pc \in {"done", "panic"} THEN Event(g) ELSE last
    /\ UNCHANGED <<build, configuration, store, nUser, cl, llm, conc, web>>

\* the invocations that can make a step: the running ones, and a new one
\* for the oldest pending event
Ready == running \cup (IF queue # <<>> THEN {Invocation(Head(queue))} ELSE {})

\* the answers a step of f may get: Translate and CreatePost answer only
\* the step that calls them
Answers(f) ==
    (IF f.pc = "Translate" THEN TranslateResults ELSE {NoResult})
        \X (IF f.pc = "CreatePost" THEN BOOLEAN ELSE {FALSE})

HookServer ==
    /\ build = "server"
    /\ \E f \in Ready : \E a \in Answers(f) :
           Advance(f, MessageHasBeenPosted(f, configuration, store, a[1], a[2]))

HookPart000 ==
    /\ build = "part_000"
    /\ \E f \in Ready : \E a \in Answers(f) :
           Advance(f, MessageHasBeenPosted_part000(f, configuration, store, a[1], a[2]))

HookPart001 ==
    /\ build = "part_001"
    /\ \E f \in Ready : \E a \in Answers(f) :
           Advance(f, MessageHasBeenPosted_part001(f, configuration, store, a[1], a[2]))

Next == UserPost \/ HookServer \/ HookPart000 \/ HookPart001

Spec == Init /\ [][Next]_vars

(* ------------------------- the output sanitizer ----------------------- *)

\* tokens of a raw model output in one sanitizer run
MaxCleanLen == 5

HasPrefix(s, prefix) ==
    /\ Len(prefix) <= Len(s)
    /\ SubSeq(s, 1, Len(prefix)) = prefix

HasSuffix(s, suffix) ==
    /\ Len(suffix) <= Len(s)
    /\ SubSeq(s, Len(s) - Len(suffix) + 1, Len(s)) = suffix

\* strings.Index: where the first occurrence of sub starts, 0 when there is
\* none (Go answers -1 and counts from 0)
Index(s, sub) ==
    LET at == { i \in 1 .. (Len(s) + 1 - Len(sub)) : SubSeq(s, i, i + Len(sub) - 1) = sub }
    IN IF at = {} THEN 0 ELSE CHOOSE i \in at : \A j \in at : i <= j

\* the labels cleanTranslationOutput strips, in the order it tries them
unwantedPrefixes ==
    << <<"Translation:", " ">>,
       <<"Translated", " ", "text:", " ">>,
       <<"Here", " ", "is", " ", "the", " ", "translation:", " ">>,
       <<"The", " ", "translation", " ", "is:", " ">>,
       <<"Output:", " ">>,
       <<"Answer:", " ">>,
       <<"Result:", " ">> >>

\* one pass over the labels, from label k on: a label that starts the text
\* is cut off and the rest trimmed
RECURSIVE stripPrefixes(_, _)
stripPrefixes(text, k) ==
    IF k > Len(unwantedPrefixes) THEN text
    ELSE IF HasPrefix(text, unwantedPrefixes[k])
         THEN stripPrefixes(
                  TrimSpace(SubSeq(text, Len(unwantedPrefixes[k]) + 1, Len(text))), k + 1)
         ELSE stripPrefixes(text, k + 1)

\* mutant: the two quotes need not be the same
isQuoted_mixed(text) ==
    /\ HasPrefix(text, <<"\"">>) \/ HasPrefix(text, <<"'">>)
    /\ HasSuffix(text, <<"\"">>) \/ HasSuffix(text, <<"'">>)

\* the text starts and ends with the same straight quote
isQuoted(text) ==
    \/ HasPrefix(text, <<"\"">>) /\ HasSuffix(text, <<"\"">>)
    \/ HasPrefix(text, <<"'">>) /\ HasSuffix(text, <<"'">>)

\* mutant: only the opening quote is cut off
unquote_openingOnly(text) == TrimSpace(SubSeq(text, 2, Len(text)))

\* text[1 : len(text)-1], trimmed: the first and the last character go
unquote(text) == TrimSpace(SubSeq(text, 2, Len(text) - 1))

\* mutant: the marker itself is kept
truncateAt_keepMarker(text, marker) ==
    IF Index(text, marker) = 0 THEN text
    ELSE SubSeq(text, 1, Index(text, marker) + Len(marker) - 1)

\* text[:idx] at the first occurrence of marker, the text itself without one
truncateAt(text, marker) ==
    IF Index(text, marker) = 0 THEN text ELSE SubSeq(text, 1, Index(text, marker) - 1)

\* mutant: the last trim is left out
finalTrim_none(text) == text

\* the strings.TrimSpace of the return statement
finalTrim(text) == TrimSpace(text)

Returned(text) == [panic |-> FALSE, text |-> text]

\* a run-time panic: no value is returned
Panicked == [panic |-> TRUE, text |-> <<>>]

\* cleanTranslationOutput.  text[1 : len(text)-1] panics with "slice bounds
\* out of range" when the quoted text is a single quote character.
cleanTranslationOutput(text) ==
    LET trimmed == TrimSpace(text)
        unlabelled == stripPrefixes(trimmed, 1)
    IN IF isQuoted(unlabelled) /\ Len(unlabelled) < 2 THEN Panicked
       ELSE LET unquoted == IF isQuoted(unlabelled) THEN unquote(unlabelled) ELSE unlabelled
                noNote == truncateAt(unquoted, <<"\n", "\n", "Note:">>)
                noExplanation == truncateAt(noNote, <<"\n", "\n", "Explanation:">>)
            IN Returned(finalTrim(noExplanation))

\* the tokens raw outputs are made of
CleanAlphabet ==
    {"Translation:", "Output:", " ", "\n", "\"", "'", "Note:", "Explanation:", "a"}

Texts(maxLen) == UNION { [1 .. n -> CleanAlphabet] : n \in 0 .. maxLen }

\* tokens of the text inside a labelled, quoted raw output
MaxQuotedLen == 3

\* a listed label, then a text in double quotes
LabelledQuoted ==
    { unwantedPrefixes[k] \o <<"\"">> \o t \o <<"\"">> :
        k \in DOMAIN unwantedPrefixes, t \in Texts(MaxQuotedLen) }

\* a text followed by both kinds of appended block, in either order
TwoBlocks ==
    { <<"a", "\n", "\n", "Explanation:", "a", "\n", "\n", "Note:", "a">>,
      <<"a", "\n", "\n", "Note:", "a", "\n", "\n", "Explanation:", "a">> }

\* a text between white space other than blank and newline
OtherSpaces ==
    { <<"\f", "a", "U+00A0">>, <<"U+3000", "Translation:", " ", "U+2028", "a", "\t">>,
      <<"\"", "U+0085", "a", "\r", "\"">>, <<"a", "U+000B", "\n", "\n", "Note:", "a">> }

\* raw outputs: every text of at most MaxCleanLen tokens, the labelled,
\* quoted ones, the ones with two appended blocks and the ones with other
\* white space
RawOutputs == Texts(MaxCleanLen) \cup LabelledQuoted \cup TwoBlocks \cup OtherSpaces

InitClean ==
    /\ build = "server"
    /\ configuration \in {c \in Configurations : c.BotUsername = "" /\ c.Provider = "vllm"}
    /\ store \in {k \in Stores : \A u \in UserIds : k[u] = NoInfo}
    /\ queue = <<>>
    /\ running = {}
    /\ last = NoEvent
    /\ nUser = 0
    /\ nCreated = 0
    /\ web = Idle
    /\ llm = Idle
    /\ conc = Idle
    /\ \E raw \in RawOutputs : cl = [phase |-> "raw", raw |-> raw]

\* the sanitizer runs on the raw output
Clean ==
    /\ cl.phase = "raw"
    /\ cl' = [phase |-> "cleaned", raw |-> cl.raw, once |-> cleanTranslationOutput(cl.raw)]
    /\ UNCHANGED <<hook, llm, conc, web>>

\* the sanitizer runs again, on what it returned
CleanAgain ==
    /\ cl.phase = "cleaned"
    /\ ~cl.once.panic
    /\ cl' = [phase |-> "recleaned", raw |-> cl.raw, once |-> cl.once,
              twice |-> cleanTranslationOutput(cl.once.text)]
    /\ UNCHANGED <<hook, llm, conc, web>>

NextClean == Clean \/ CleanAgain

SpecClean == InitClean /\ [][NextClean]_vars

(* ------------------------- the LLM providers -------------------------- *)

\* the catalog of getLanguageName
languageNames ==
    ("auto" :> <<"Auto-detect">>)
    @@ ("af" :> <<"Afrikaans">>)
    @@ ("sq" :> <<"Albanian">>)
    @@ ("am" :> <<"Amharic">>)
    @@ ("ar" :> <<"Arabic">>)
    @@ ("hy" :> <<"Armenian">>)
    @@ ("az" :> <<"Azerbaijani">>)
    @@ ("bn" :> <<"Bengali">>)
    @@ ("bs" :> <<"Bosnian">>)
    @@ ("bg" :> <<"Bulgarian">>)
    @@ ("ca" :> <<"Catalan">>)
    @@ ("zh" :> <<"Chinese", " ", "(Simplified)">>)
    @@ ("zh-TW" :> <<"Chinese", " ", "(Traditional)">>)
    @@ ("hr" :> <<"Croatian">>)
    @@ ("cs" :> <<"Czech">>)
    @@ ("da" :> <<"Danish">>)
    @@ ("fa-AF" :> <<"Dari">>)
    @@ ("nl" :> <<"Dutch">>)
    @@ ("en" :> <<"English">>)
    @@ ("et" :> <<"Estonian">>)
    @@ ("fa" :> <<"Farsi", " ", "(Persian)">>)
    @@ ("tl" :> <<"Filipino,", " ", "Tagalog">>)
    @@ ("fi" :> <<"Finnish">>)
    @@ ("fr" :> <<"French">>)
    @@ ("fr-CA" :> <<"French", " ", "(Canada)">>)
    @@ ("ka" :> <<"Georgian">>)
    @@ ("de" :> <<"German">>)
    @@ ("el" :> <<"Greek">>)
    @@ ("gu" :> <<"Gujarati">>)
    @@ ("ht" :> <<"Haitian", " ", "Creole">>)
    @@ ("ha" :> <<"Hausa">>)
    @@ ("he" :> <<"Hebrew">>)
    @@ ("hi" :> <<"Hindi">>)
    @@ ("hu" :> <<"Hungarian">>)
    @@ ("is" :> <<"Icelandic">>)
    @@ ("id" :> <<"Indonesian">>)
    @@ ("it" :> <<"Italian">>)
    @@ ("ja" :> <<"Japanese">>)
    @@ ("kn" :> <<"Kannada">>)
    @@ ("kk" :> <<"Kazakh">>)
    @@ ("ko" :> <<"Korean">>)
    @@ ("lv" :> <<"Latvian">>)
    @@ ("lt" :> <<"Lithuanian">>)
    @@ ("mk" :> <<"Macedonian">>)
    @@ ("ms" :> <<"Malay">>)
    @@ ("ml" :> <<"Malayalam">>)
    @@ ("mt" :> <<"Maltese">>)
    @@ ("mr" :> <<"Marathi">>)
    @@ ("mn" :> <<"Mongolian">>)
    @@ ("no" :> <<"Norwegian">>)
    @@ ("ps" :> <<"Pashto">>)
    @@ ("pl" :> <<"Polish">>)
    @@ ("pt" :> <<"Portuguese">>)
    @@ ("pa" :> <<"Punjabi">>)
    @@ ("ro" :> <<"Romanian">>)
    @@ ("ru" :> <<"Russian">>)
    @@ ("sr" :> <<"Serbian">>)
    @@ ("si" :> <<"Sinhala">>)
    @@ ("sk" :> <<"Slovak">>)
    @@ ("sl" :> <<"Slovenian">>)
    @@ ("so" :> <<"Somali">>)
    @@ ("es" :> <<"Spanish">>)
    @@ ("es-MX" :> <<"Spanish", " ", "(Mexico)">>)
    @@ ("sw" :> <<"Swahili">>)
    @@ ("sv" :> <<"Swedish">>)
    @@ ("ta" :> <<"Tamil">>)
    @@ ("te" :> <<"Telugu">>)
    @@ ("th" :> <<"Thai">>)
    @@ ("tr" :> <<"Turkish">>)
    @@ ("uk" :> <<"Ukrainian">>)
    @@ ("ur" :> <<"Urdu">>)
    @@ ("uz" :> <<"Uzbek">>)
    @@ ("vi" :> <<"Vietnamese">>)
    @@ ("cy" :> <<"Welsh">>)

\* getLanguageName: the catalog name of a code, the code itself when the
\* catalog has none
getLanguageName(code) ==
    IF code \in DOMAIN languageNames THEN languageNames[code] ELSE <<code>>

\* the hints of getLanguageClarification; a name in its own script is
\* written by its code points
clarifications ==
    ("ko" :> <<" ", "(U+D55CU+AD6DU+C5B4,", " ", "using", " ", "Hangul", " ", "script,", " ", "NOT", " ", "Chinese)">>)
    @@ ("ja" :> <<" ", "(U+65E5U+672CU+8A9E,", " ", "using", " ", "Hiragana/Katakana/Kanji,", " ", "NOT", " ", "Chinese", " ", "or", " ", "Korean)">>)
    @@ ("zh" :> <<" ", "(U+4E2DU+6587U+7B80U+4F53,", " ", "Simplified", " ", "Chinese", " ", "characters)">>)
    @@ ("zh-TW" :> <<" ", "(U+4E2DU+6587U+7E41U+9AD4,", " ", "Traditional", " ", "Chinese", " ", "characters)">>)
    @@ ("en" :> <<" ", "(English)">>)
    @@ ("ar" :> <<" ", "(U+0627U+0644U+0639U+0631U+0628U+064AU+0629,", " ", "Arabic", " ", "script)">>)
    @@ ("he" :> <<" ", "(U+05E2U+05D1U+05E8U+05D9U+05EA,", " ", "Hebrew", " ", "script)">>)
    @@ ("hi" :> <<" ", "(U+0939U+093FU+0928U+094DU+0926U+0940,", " ", "Devanagari", " ", "script)">>)
    @@ ("ru" :> <<" ", "(U+0420U+0443U+0441U+0441U+043AU+0438U+0439,", " ", "Cyrillic", " ", "script)">>)
    @@ ("th" :> <<" ", "(U+0E44U+0E17U+0E22,", " ", "Thai", " ", "script)">>)

\* getLanguageClarification: the hint of a commonly confused language
getLanguageClarification(code) ==
    IF code \in DOMAIN clarifications THEN clarifications[code] ELSE <<>>

\* mutant: the auto-detect branch is missing
createTranslationPrompt_alwaysFrom(text, sourceLang, targetLang) ==
    <<"Translate", " ", "from", " ">> \o getLanguageName(sourceLang)
        \o getLanguageClarification(sourceLang)
        \o <<" ", "to", " ">> \o getLanguageName(targetLang)
        \o getLanguageClarification(targetLang)
        \o <<".", " ", "Reply", " ", "with", " ", "ONLY", " ", "the", " ", "translation.",
             "\n", "\n">> \o text

\* VLLMProvider.createTranslationPrompt of src/server/provider.go
createTranslationPrompt(text, sourceLang, targetLang) ==
    LET sourceLanguageName == getLanguageName(sourceLang)
        targetLanguageName == getLanguageName(targetLang)
        targetClarification == getLanguageClarification(targetLang)
        sourceClarification ==
            IF sourceLang # "auto" THEN getLanguageClarification(sourceLang) ELSE <<>>
    IN IF sourceLang = "auto"
       THEN <<"Translate", " ", "to", " ">> \o targetLanguageName \o targetClarification
                \o <<".", " ", "Reply", " ", "with", " ", "ONLY", " ", "the", " ",
                     "translation.", "\n", "\n">> \o text
       ELSE <<"Translate", " ", "from", " ">> \o sourceLanguageName \o sourceClarification
                \o <<" ", "to", " ">> \o targetLanguageName \o targetClarification
                \o <<".", " ", "Reply", " ", "with", " ", "ONLY", " ", "the", " ",
                     "translation.", "\n", "\n">> \o text

\* mutant: the user turn names the languages without their clarifications
userPrompt_noClarification(text, sourceLang, targetLang) ==
    IF sourceLang = "auto"
    THEN <<"Translate", " ", "to", " ">> \o getLanguageName(targetLang)
             \o <<":", "\n", "\n">> \o text
    ELSE <<"Translate", " ", "from", " ">> \o getLanguageName(sourceLang)
             \o <<" ", "to", " ">> \o getLanguageName(targetLang)
             \o <<":", "\n", "\n">> \o text

\* the user turn LiteLLMProvider.Translate builds
userPrompt(text, sourceLang, targetLang) ==
    LET sourceLanguageName == getLanguageName(sourceLang)
        targetLanguageName == getLanguageName(targetLang)
        targetClarification == getLanguageClarification(targetLang)
        sourceClarification ==
            IF sourceLang # "auto" THEN getLanguageClarification(sourceLang) ELSE <<>>
    IN IF sourceLang = "auto"
       THEN <<"Translate", " ", "to", " ">> \o targetLanguageName \o targetClarification
                \o <<":", "\n", "\n">> \o text
       ELSE <<"Translate", " ", "from", " ">> \o sourceLanguageName \o sourceClarification
                \o <<" ", "to", " ">> \o targetLanguageName \o targetClarification
                \o <<":", "\n", "\n">> \o text

\* VLLMProvider.createTranslationPrompt of the provider revision kept in
\* src/server/api.go
createTranslationPrompt_api(text, sourceLang, targetLang) ==
    LET sourceLanguageName == getLanguageName(sourceLang)
        targetLanguageName == getLanguageName(targetLang)
    IN IF sourceLang = "auto"
       THEN <<"Translate", " ", "the", " ", "following", " ", "text", " ", "to", " ">>
                \o targetLanguageName
                \o <<".", " ", "Only", " ", "provide", " ", "the", " ", "translation,", " ",
                     "nothing", " ", "else.", "\n", "\n", "Text:", " ">> \o text
                \o <<"\n", "\n", "Translation:">>
       ELSE <<"Translate", " ", "the", " ", "following", " ", "text", " ", "from", " ">>
                \o sourceLanguageName \o <<" ", "to", " ">> \o targetLanguageName
                \o <<".", " ", "Only", " ", "provide", " ", "the", " ", "translation,", " ",
                     "nothing", " ", "else.", "\n", "\n", "Text:", " ">> \o text
                \o <<"\n", "\n", "Translation:">>

\* http.StatusOK
StatusOK == 200

\* what Translate gives back: a text and an error ("" is nil), or a panic
Result(text, err) == [panic |-> FALSE, text |-> text, err |-> err]

PanicResult == [panic |-> TRUE, text |-> <<>>, err |-> ""]

\* mutant: the Authorization header is always set
headers_always(apiKey) ==
    [ContentType |-> "application/json", Authorization |-> <<"Bearer ", apiKey>>]

\* the request headers: Authorization only with a configured key
headers(apiKey) ==
    IF apiKey # ""
    THEN [ContentType |-> "application/json", Authorization |-> <<"Bearer ", apiKey>>]
    ELSE [ContentType |-> "application/json"]

\* mutant: the choice list is not checked
noChoices_unchecked(choices) == FALSE

\* len(resp.Choices) == 0
noChoices(choices) == Len(choices) = 0

\* the value returned after cleaning the first choice; Choices[0] of an
\* empty list and a panic inside cleanTranslationOutput both panic
cleaned(choices) ==
    IF choices = <<>> THEN PanicResult
    ELSE IF cleanTranslationOutput(choices[1]).panic THEN PanicResult
    ELSE Result(cleanTranslationOutput(choices[1]).text, "")

\* the answer part of a Translate: resp is what the backend did
answer(name, resp) ==
    IF resp.transportErr THEN Result(<<>>, name \o " API request failed")
    ELSE IF resp.status # StatusOK THEN Result(<<>>, name \o " API error")
    ELSE IF ~resp.decodes THEN Result(<<>>, "failed to decode response")
    ELSE IF noChoices(resp.choices) THEN Result(<<>>, "no translation returned from " \o name)
    ELSE cleaned(resp.choices)

\* http.NewRequest fails on a URL that does not parse; of the URLs the
\* model configures that is ":"
newRequestErr(apiURL) == apiURL = ":"

\* what Translate returns when http.NewRequest fails: nothing was sent
NotSent == [sent |-> <<>>, result |-> Result(<<>>, "failed to create request")]

\* VLLMProvider.Translate of src/server/provider.go: the request it sends
\* and what it returns
VLLMProvider_Translate(p, text, sourceLang, targetLang, resp) ==
    IF newRequestErr(p.apiURL) THEN NotSent
    ELSE
    [sent |-> << [url |-> p.apiURL, headers |-> headers(p.apiKey),
                  body |-> [model |-> p.model,
                            prompt |-> createTranslationPrompt(text, sourceLang, targetLang),
                            max_tokens |-> 512, temperature |-> "0.1",
                            stop |-> << <<"\n", "\n">>, <<"\n", "Note:">>,
                                        <<"\n", "Explanation:">>, <<"\n", "Translation:">>,
                                        <<"\n", "\n", "Input:">>, <<"[/INST]">> >>]] >>,
     result |-> answer("vLLM", resp)]

\* LiteLLMProvider.Translate of src/server/provider.go
LiteLLMProvider_Translate(p, text, sourceLang, targetLang, resp) ==
    IF newRequestErr(p.apiURL) THEN NotSent
    ELSE
    [sent |-> << [url |-> p.apiURL, headers |-> headers(p.apiKey),
                  body |-> [model |-> p.model,
                            messages |-> << [role |-> "system",
                                             content |-> "You are a translation system. Output ONLY the translated text without any explanations, notes, or additional commentary."],
                                            [role |-> "user",
                                             content |-> userPrompt(text, sourceLang, targetLang)] >>,
                            temperature |-> "0.3", max_tokens |-> 2048]] >>,
     result |-> answer("LiteLLM", resp)]

\* VLLMProvider.Translate of the provider revision kept in src/server/api.go:
\* the first choice is trimmed, not cleaned
VLLMProvider_Translate_api(p, text, sourceLang, targetLang, resp) ==
    IF newRequestErr(p.apiURL) THEN NotSent
    ELSE
    [sent |-> << [url |-> p.apiURL, headers |-> headers(p.apiKey),
                  body |-> [model |-> p.model,
                            prompt |-> createTranslationPrompt_api(text, sourceLang, targetLang),
                            max_tokens |-> 2048, temperature |-> "0.3"]] >>,
     result |-> IF resp.transportErr THEN Result(<<>>, "vLLM API request failed")
                ELSE IF resp.status # StatusOK THEN Result(<<>>, "vLLM API error")
                ELSE IF ~resp.decodes THEN Result(<<>>, "failed to decode response")
                ELSE IF Len(resp.choices) = 0
                     THEN Result(<<>>, "no translation returned from vLLM")
                ELSE Result(TrimSpace(resp.choices[1]), "")]

Variants == {"vllm", "litellm", "vllm_api"}

Providers == [apiURL : {"http://llm", ":"}, apiKey : {"", "key"}, model : {"m"}]

SourceTexts == { <<"hello">>, <<"from", " ", "Auto-detect">> }

SourceLanguages == {"auto", "ko", "ja", "xx"}

TargetLanguages == {"en", "ko", "fr", "zh-TW", "auto"}

\* the text of a choice the backend may answer
ChoiceTexts ==
    { <<>>, <<"a">>, <<" ", "a", "\n">>, <<"Translation:", " ", "a">>, <<"\"", "a", "\"">>,
      <<"\"">> }

\* the backend's answers: no connection, an error status, an undecodable
\* body, or a body with zero, one or two choices
Responses ==
    { [transportErr |-> TRUE, status |-> 0, decodes |-> FALSE, choices |-> <<>>],
      [transportErr |-> FALSE, status |-> 500, decodes |-> FALSE, choices |-> <<>>],
      [transportErr |-> FALSE, status |-> StatusOK, decodes |-> FALSE, choices |-> <<>>],
      [transportErr |-> FALSE, status |-> StatusOK, decodes |-> TRUE, choices |-> <<>>] }
    \cup { [transportErr |-> FALSE, status |-> StatusOK, decodes |-> TRUE, choices |-> <<c>>] :
             c \in ChoiceTexts }
    \cup { [transportErr |-> FALSE, status |-> StatusOK, decodes |-> TRUE,
            choices |-> <<c, <<"b">>>>] : c \in ChoiceTexts }

InitProvider ==
    /\ build = "server"
    /\ configuration \in {c \in Configurations : c.BotUsername = "" /\ c.Provider = "vllm"}
    /\ store \in {k \in Stores : \A u \in UserIds : k[u] = NoInfo}
    /\ queue = <<>>
    /\ running = {}
    /\ last = NoEvent
    /\ nUser = 0
    /\ nCreated = 0
    /\ web = Idle
    /\ cl = Idle
    /\ conc = Idle
    /\ \E v \in Variants, p \in Providers, t \in SourceTexts, s \in SourceLanguages,
          g \in TargetLanguages, r \in Responses :
           llm = [phase |-> "call", variant |-> v, provider |-> p, text |-> t,
                  sourceLang |-> s, targetLang |-> g, resp |-> r]

\* one call of Translate, with the request it sent and what it returned
Translated(done) ==
    /\ llm.phase = "call"
    /\ llm' = [llm EXCEPT !.phase = "done"] @@ done
    /\ UNCHANGED <<hook, cl, conc, web>>

TranslateVLLM ==
    /\ llm.phase = "call"
    /\ llm.variant = "vllm"
    /\ Translated(VLLMProvider_Translate(llm.provider, llm.text, llm.sourceLang,
                                         llm.targetLang, llm.resp))

TranslateLiteLLM ==
    /\ llm.phase = "call"
    /\ llm.variant = "litellm"
    /\ Translated(LiteLLMProvider_Translate(llm.provider, llm.text, llm.sourceLang,
                                            llm.targetLang, llm.resp))

TranslateVLLMApi ==
    /\ llm.phase = "call"
    /\ llm.variant = "vllm_api"
    /\ Translated(VLLMProvider_Translate_api(llm.provider, llm.text, llm.sourceLang,
                                             llm.targetLang, llm.resp))

NextProvider == TranslateVLLM \/ TranslateLiteLLM \/ TranslateVLLMApi

SpecProvider == InitProvider /\ [][NextProvider]_vars

(* ----------------------- the managed-API provider --------------------- *)

\* credentials.NewStaticCredentials(...).Get: fails when the key id or the
\* secret is empty
credsErr(p) == p.accessKeyID = "" \/ p.secretAccessKey = ""

\* AWSTranslateProvider.Translate: aws is what the SDK and the backend do.
\* session.Must panics when the session cannot be made, and the returned
\* *output.TranslatedText is read without a nil check.
AWSTranslateProvider_Translate(p, text, sourceLang, targetLang, aws) ==
    IF aws.sessionErr THEN [sent |-> <<>>, result |-> PanicResult]
    ELSE IF credsErr(p) THEN [sent |-> <<>>, result |-> Result(<<>>, "invalid AWS credentials")]
    ELSE LET input == [SourceLanguageCode |-> sourceLang, TargetLanguageCode |-> targetLang,
                       Text |-> text, region |-> p.region]
         IN IF aws.transportErr
            THEN [sent |-> <<input>>, result |-> Result(<<>>, "AWS translation failed")]
            ELSE IF ~aws.hasText THEN [sent |-> <<input>>, result |-> PanicResult]
            ELSE [sent |-> <<input>>, result |-> Result(aws.text, "")]

AWSProviders ==
    [accessKeyID : {"", "AKIA"}, secretAccessKey : {"", "secret"}, region : {"us-east-1"}]

\* the session cannot be made, the call fails, the answer has no translated
\* text, or it has one
AWSAnswers ==
    { [sessionErr |-> TRUE, transportErr |-> FALSE, hasText |-> FALSE, text |-> <<>>],
      [sessionErr |-> FALSE, transportErr |-> TRUE, hasText |-> FALSE, text |-> <<>>],
      [sessionErr |-> FALSE, transportErr |-> FALSE, hasText |-> FALSE, text |-> <<>>] }
    \cup { [sessionErr |-> FALSE, transportErr |-> FALSE, hasText |-> TRUE, text |-> t] :
             t \in { <<>>, <<"a">> } }

InitAWS ==
    /\ build = "server"
    /\ configuration \in {c \in Configurations : c.BotUsername = "" /\ c.Provider = "vllm"}
    /\ store \in {k \in Stores : \A u \in UserIds : k[u] = NoInfo}
    /\ queue = <<>>
    /\ running = {}
    /\ last = NoEvent
    /\ nUser = 0
    /\ nCreated = 0
    /\ web = Idle
    /\ cl = Idle
    /\ conc = Idle
    /\ \E p \in AWSProviders, t \in SourceTexts, s \in SourceLanguages, g \in TargetLanguages,
          a \in AWSAnswers :
           llm = [phase |-> "call", variant |-> "aws", provider |-> p, text |-> t,
                  sourceLang |-> s, targetLang |-> g, aws |-> a]

TranslateAWS ==
    /\ llm.phase = "call"
    /\ llm.variant = "aws"
    /\ llm' = [llm EXCEPT !.phase = "done"]
                  @@ AWSTranslateProvider_Translate(llm.provider, llm.text, llm.sourceLang,
                                                    llm.targetLang, llm.aws)
    /\ UNCHANGED <<hook, cl, conc, web>>

NextAWS == TranslateAWS

SpecAWS == InitAWS /\ [][NextAWS]_vars

(* ---------------------- two invocations at a time --------------------- *)

Invocations == {1, 2}

\* the parameters and local variables of an invocation before it starts
Frame(post) == [pc |-> "start", post |-> post, userInfo |-> NoInfo, translatedText |-> <<>>]

\* mutant: both invocations read the variables of the first
frame_shared(c, i) == c.inv[1]

\* an invocation reads its own parameters and local variables
frame(c, i) == c.inv[i]

\* the host delivers two posts; the backend's answer to each and the
\* outcome of each CreatePost are fixed, the preferences and the
\* configuration stay as they are
InitConc ==
    /\ build = "server"
    /\ configuration \in {c \in Configurations : c.BotUsername = ""}
    /\ store \in {k \in Stores : \A u \in UserIds : u # "alice" => k[u] = NoInfo}
    /\ queue = <<>>
    /\ running = {}
    /\ last = NoEvent
    /\ nUser = 0
    /\ nCreated = 0
    /\ web = Idle
    /\ cl = Idle
    /\ llm = Idle
    /\ \E p1 \in {p \in UserPosts("p1") : p.RootId = "" /\ p.Props = NoProps},
          p2 \in {p \in UserPosts("p2") : p.RootId = "" /\ p.Props = NoProps},
          tr \in [Invocations -> TranslateResults], cpErr \in [Invocations -> BOOLEAN] :
           conc = [phase |-> "run", inv |-> <<Frame(p1), Frame(p2)>>, tr |-> tr,
                   cpErr |-> cpErr, created |-> <<>>, logs |-> <<>>]

\* invocation i returns, having logged logs
Return(i, logs) ==
    conc' = [conc EXCEPT !.inv[i].pc = "done", !.logs = @ \o logs]

\* from the entry to the call of getUserInfo
Enter(i) ==
    /\ conc.phase = "run"
    /\ conc.inv[i].pc = "start"
    /\ LET post == frame(conc, i).post
           user == GetUser(post.UserId)
       IN IF IsSystemMessage(post) THEN Return(i, <<>>)
          ELSE IF user.err THEN Return(i, LogError("Failed to get user"))
          ELSE IF IsBot(user) THEN Return(i, <<>>)
          ELSE conc' = [conc EXCEPT !.inv[i].pc = "info"]
    /\ UNCHANGED <<hook, cl, llm, web>>

\* getUserInfo and getTranslationProvider, up to the call of Translate
Lookup(i) ==
    /\ conc.phase = "run"
    /\ conc.inv[i].pc = "info"
    /\ LET post == frame(conc, i).post
           userInfo == getUserInfo(store, post.UserId)
           provider == getTranslationProvider(configuration)
       IN IF ~userInfo.found THEN Return(i, <<>>)
          ELSE IF NotActivated(userInfo) THEN Return(i, <<>>)
          ELSE IF provider.err THEN Return(i, LogError("Failed to get translation provider"))
          ELSE conc' = [conc EXCEPT !.inv[i].pc = "translate", !.inv[i].userInfo = userInfo]
    /\ UNCHANGED <<hook, cl, llm, web>>

\* provider.Translate and the comparison with the original, up to the call
\* of CreatePost; a panic of Translate ends the process and both invocations
CallTranslate(i) ==
    /\ conc.phase = "run"
    /\ conc.inv[i].pc = "translate"
    /\ LET post == frame(conc, i).post
           tr == conc.tr[i]
       IN IF tr.panic THEN conc' = [conc EXCEPT !.phase = "crashed", !.inv[i].pc = "panic"]
          ELSE IF tr.err THEN Return(i, LogError("Failed to translate message"))
          ELSE IF SameAsOriginal(tr.text, post.Message) THEN Return(i, <<>>)
          ELSE conc' = [conc EXCEPT !.inv[i].pc = "post", !.inv[i].translatedText = tr.text]
    /\ UNCHANGED <<hook, cl, llm, web>>

\* CreatePost and the return
CallCreatePost(i) ==
    /\ conc.phase = "run"
    /\ conc.inv[i].pc = "post"
    /\ LET f == frame(conc, i) IN
       conc' = [conc EXCEPT
                  !.inv[i].pc = "done",
                  !.created = Append(@, translatedPost(f.post, f.userInfo, f.translatedText,
                                                       configuration)),
                  !.logs = @ \o (IF conc.cpErr[i]
                                 THEN LogError("Failed to post translated message")
                                 ELSE <<>>)]
    /\ UNCHANGED <<hook, cl, llm, web>>

NextConc ==
    \/ \E i \in Invocations : Enter(i)
    \/ \E i \in Invocations : Lookup(i)
    \/ \E i \in Invocations : CallTranslate(i)
    \/ \E i \in Invocations : CallCreatePost(i)

SpecConc == InitConc /\ [][NextConc]_vars

(* --------------------------- the HTTP endpoint ------------------------ *)

\* requests served in one behaviour
MaxRequests == 1

\* http.Error and writeAPIError: a status and a message
Error(status, msg) == [status |-> status, body |-> msg]

\* w.Write of a marshalled value
Json(value) == [status |-> 200, body |-> value]

\* what a handler did: what it wrote, what it called, and the store it left
Served(writes, calls, kv) ==
    [writes |-> writes, calls |-> calls, store |-> kv, panic |-> FALSE]

\* UserInfo.IsValid: the user id and both languages are given
InfoIsValid(info) == info.UserID # "" /\ info.SourceLanguage # "" /\ info.TargetLanguage # ""

\* p.setUserInfo: the preference of info.UserID is replaced
setUserInfo(kv, info) ==
    [kv EXCEPT ![info.UserID] = UserInfo(info.Activated, info.SourceLanguage,
                                         info.TargetLanguage)]

\* mutant: the body's user is not compared with the requester
sameUser_ignored(info, userID) == TRUE

\* info.UserID != userID
sameUser(info, userID) == info.UserID = userID

\* Plugin.setInfo: body is <<>> when nothing decodes, kvErr whether the
\* store refuses the write
setInfo(req, kv) ==
    LET userID == req.userID IN
    IF userID = "" THEN Served(<<Error(401, "Not authorized to set info")>>, <<>>, kv)
    ELSE IF req.body = <<>> THEN Served(<<Error(400, "Invalid parameter: info")>>, <<>>, kv)
    ELSE LET info == req.body[1] IN
    IF ~InfoIsValid(info) THEN Served(<<Error(400, "Invalid info")>>, <<>>, kv)
    ELSE IF ~sameUser(info, userID)
    THEN Served(<<Error(400, "Invalid parameter: user mismatch")>>, <<>>, kv)
    ELSE IF req.kvErr THEN Served(<<Error(400, "Failed to set info")>>, <<"setUserInfo">>, kv)
    ELSE Served(<<Json(info)>>, <<"setUserInfo">>, setUserInfo(kv, info))

\* Plugin.getInfo
getInfo(req, kv) ==
    LET userID == req.userID IN
    IF userID = "" THEN Served(<<>>, <<>>, kv)
    ELSE LET info == getUserInfo(kv, userID) IN
    IF ~info.found THEN Served(<<>>, <<"getUserInfo">>, kv)
    ELSE Served(<<Json(info)>>, <<"getUserInfo">>, kv)

\* Plugin.getGo: getPostErr whether GetPost fails, tr what Translate
\* answers; when Translate panics nothing is written
getGo(req, cfg, kv) ==
    LET userID == req.userID
        postID == req.post_id
        source == req.source
        target == req.target
    IN
    IF userID = "" THEN Served(<<Error(401, "Not authorized to translate post")>>, <<>>, kv)
    ELSE IF Len(postID) # 26
    THEN Served(<<Error(400, "Invalid parameter: post_id")>>, <<>>, kv)
    ELSE IF Len(source) < 2 \/ Len(source) > 5
    THEN Served(<<Error(400, "Invalid parameter: source")>>, <<>>, kv)
    ELSE IF Len(target) < 2 \/ Len(target) > 5
    THEN Served(<<Error(400, "Invalid parameter: target")>>, <<>>, kv)
    ELSE IF req.getPostErr
    THEN Served(<<Error(400, "No post to translate")>>, <<"GetPost">>, kv)
    ELSE IF getTranslationProvider(cfg).err
    THEN Served(<<Error(500, "Failed to initialize translation provider")>>,
                <<"GetPost", "getTranslationProvider">>, kv)
    ELSE IF req.tr.panic
    THEN [Served(<<>>, <<"GetPost", "getTranslationProvider", "Translate">>, kv)
            EXCEPT !.panic = TRUE]
    ELSE IF req.tr.err
    THEN Served(<<Error(400, "Translation failed")>>,
                <<"GetPost", "getTranslationProvider", "Translate">>, kv)
    ELSE Served(<<Json([PostID |-> postID, SourceLanguage |-> source,
                        TargetLanguage |-> target, TranslatedText |-> req.tr.text])>>,
                <<"GetPost", "getTranslationProvider", "Translate">>, kv)

\* Plugin.ServeHTTP: valid is whether p.IsValid returns no error.  The
\* not-configured answer is written and the switch on the path follows.
ServeHTTP(req, valid, cfg, kv) ==
    LET refused == IF ~valid THEN <<Error(501, "This plugin is not configured.")>> ELSE <<>>
        route ==
            CASE req.path = "/api/go" -> [handler |-> <<"getGo">>, did |-> getGo(req, cfg, kv)]
              [] req.path = "/api/get_info" ->
                    [handler |-> <<"getInfo">>, did |-> getInfo(req, kv)]
              [] req.path = "/api/set_info" ->
                    [handler |-> <<"setInfo">>, did |-> setInfo(req, kv)]
              [] OTHER ->
                    [handler |-> <<>>,
                     did |-> Served(<<Error(404, "404 page not found")>>, <<>>, kv)]
    IN [writes |-> refused \o route.did.writes, handlers |-> route.handler,
        calls |-> route.did.calls, store |-> route.did.store, panic |-> route.did.panic]

Paths == {"/api/go", "/api/get_info", "/api/set_info", "/api/none"}

\* the Mattermost-User-ID header the host sets, "" without a session
Requesters == {"", "alice", "bot"}

\* the decoded body of a set_info request, <<>> when it does not decode
Bodies ==
    { <<>> } \cup
    { <<[UserID |-> u, Activated |-> TRUE, SourceLanguage |-> s, TargetLanguage |-> "fr"]>> :
        u \in Requesters, s \in {"", "auto"} }

\* a post id of 26 characters
SomePostId == "abcdefghijklmnopqrstuvwxyz"

\* the query of a go request: a bad post id, a bad source, a bad target, or
\* none of these
Queries ==
    { [post_id |-> "p1", source |-> "ko", target |-> "en"],
      [post_id |-> SomePostId, source |-> "k", target |-> "en"],
      [post_id |-> SomePostId, source |-> "auto", target |-> "toolong"],
      [post_id |-> SomePostId, source |-> "auto", target |-> "en"] }

Request(path, userID, body, query, kvErr, getPostErr, tr) ==
    [path |-> path, userID |-> userID, body |-> body, post_id |-> query.post_id,
     source |-> query.source, target |-> query.target, kvErr |-> kvErr,
     getPostErr |-> getPostErr, tr |-> tr]

NoQuery == [post_id |-> "", source |-> "", target |-> ""]

NoRequest == Request("", "", <<>>, NoQuery, FALSE, FALSE, NoResult)

\* the requests a client may send to path, with what the store, the host
\* and the provider would answer
Requests(path) ==
    CASE path = "/api/set_info" ->
            { Request(path, u, b, NoQuery, e, FALSE, NoResult) :
                u \in Requesters, b \in Bodies, e \in BOOLEAN }
      [] path = "/api/go" ->
            { Request(path, u, <<>>, q, FALSE, e, t) :
                u \in {"", "alice"}, q \in Queries, e \in BOOLEAN,
                t \in { r \in TranslateResults : r.text \in {<<>>, <<"b">>} } }
      [] OTHER -> { Request(path, u, <<>>, NoQuery, FALSE, FALSE, NoResult) : u \in Requesters }

InitHTTP ==
    /\ build = "server"
    /\ configuration \in {c \in Configurations : c.BotUsername = ""}
    /\ store \in Stores
    /\ queue = <<>>
    /\ running = {}
    /\ last = NoEvent
    /\ nUser = 0
    /\ nCreated = 0
    /\ cl = Idle
    /\ llm = Idle
    /\ conc = Idle
    /\ \E valid \in BOOLEAN :
           web = [phase |-> "serving", configValid |-> valid, n |-> 0, req |-> NoRequest,
                  before |-> store,
                  out |-> [writes |-> <<>>, handlers |-> <<>>, calls |-> <<>>, store |-> store,
                           panic |-> FALSE]]

\* one request to path is served; an answer of the store, the host or the
\* provider that the handler did not ask for is left at its default.  A
\* handler that panics ends the process: no request is served after it.
Serve(path) ==
    /\ web.phase = "serving"
    /\ web.n < MaxRequests
    /\ \E req \in Requests(path) :
           LET out == ServeHTTP(req, web.configValid, configuration, store) IN
           /\ Called(out, "setUserInfo") \/ ~req.kvErr
           /\ Called(out, "GetPost") \/ ~req.getPostErr
           /\ Called(out, "Translate") \/ (req.tr.err /\ ~req.tr.panic) \/ path # "/api/go"
           /\ web' = [web EXCEPT !.n = @ + 1, !.req = req, !.before = store, !.out = out,
                                 !.phase = IF out.panic THEN "crashed" ELSE @]
           /\ store' = out.store
    /\ UNCHANGED <<build, configuration, queue, running, last, nUser, nCreated, cl, llm, conc>>

NextHTTP ==
    \/ Serve("/api/go")
    \/ Serve("/api/get_info")
    \/ Serve("/api/set_info")
    \/ Serve("/api/none")

SpecHTTP == InitHTTP /\ [][NextHTTP]_vars

(* ------------------------- the event under test ------------------------ *)
\* The claims speak about the last invocation of the hook: the event it got
\* (last.post), what the collaborators answered and what it did (last.out).
\* These read the event's fields directly, not through the hook's helpers.

EvSystem == Len(last.post.Type) >= 7 /\ SubSeq(last.post.Type, 1, 7) = "system_"

EvMarked == "from_plugin" \in DOMAIN last.post.Props

EvUser == GetUser(last.post.UserId)

EvInfo == store[last.post.UserId]

EvOptedIn == EvInfo.found /\ EvInfo.Activated

\* the event passes every eligibility check that precedes provider resolution
EvEligible ==
    /\ last.handled
    /\ ~EvSystem
    /\ ~EvMarked
    /\ ~EvUser.err
    /\ ~EvUser.IsBot
    /\ EvOptedIn

NoPosts == last.out.created = <<>>

NoLogs == last.out.logs = <<>>

(* -------------------------------- claims ------------------------------ *)

\* C1 (as claimed): an inbound post that carries the marker key "from_plugin"
\* makes MessageHasBeenPosted create no post, whoever the author is and
\* whatever the author's preference is.
C1_LoopGuard ==
    (last.handled /\ EvMarked) => NoPosts

\* C2 (as claimed): with every created post delivered back to the hook, the
\* plugin never translates its own output, so the posts it has created never
\* outnumber the user-authored messages.
C2_NoTranslateLoop ==
    nCreated <= nUser

\* C3: every post MessageHasBeenPosted hands to CreatePost carries the
\* marker: Props has the key "from_plugin" and its value is true.
C3_MarkerSet ==
    \A i \in DOMAIN last.out.created :
        /\ "from_plugin" \in DOMAIN last.out.created[i].Props
        /\ last.out.created[i].Props["from_plugin"] = TRUE

C3_Witness ==
    /\ last.handled
    /\ Len(last.out.created) = 1
    /\ Called(last.out, "CreatePost")

\* C4: a message of a user with no stored preference, or with a stored
\* preference whose Activated is false, creates no post; and when the
\* preference lookup is what rejects it (getUserInfo was called), nothing is
\* logged.
C4_NoPreferenceSilent ==
    (last.handled /\ ~EvOptedIn) =>
        /\ NoPosts
        /\ ~Called(last.out, "getTranslationProvider")
        /\ Called(last.out, "getUserInfo") => NoLogs

C4_Witness ==
    /\ last.handled
    /\ Called(last.out, "getUserInfo")
    /\ EvInfo.found
    /\ ~EvInfo.Activated
    /\ NoPosts
    /\ NoLogs

\* C5: no post is created for a system message, for a post whose author
\* cannot be resolved, or for a post of a bot account; the failed resolution
\* writes the one log entry "Failed to get user", the other two write none.
C5_SystemUnresolvedBot ==
    last.handled =>
        /\ EvSystem => (NoPosts /\ NoLogs)
        /\ (Called(last.out, "GetUser") /\ EvUser.err) =>
               (NoPosts /\ last.out.logs = <<"Failed to get user">>)
        /\ (Called(last.out, "GetUser") /\ ~EvUser.err /\ EvUser.IsBot) =>
               (NoPosts /\ NoLogs)

C5_Witness ==
    /\ last.handled
    /\ Called(last.out, "GetUser")
    /\ EvUser.IsBot
    /\ EvOptedIn
    /\ NoPosts
    /\ NoLogs

\* C6: when Translate succeeds and its text, trimmed of white space, equals
\* the trimmed original message, no post is created.
C6_SameLanguageShortCircuit ==
    (/\ last.handled
     /\ Called(last.out, "Translate")
     /\ ~last.tr.err
     /\ ~last.tr.panic
     /\ TrimSpace(last.tr.text) = TrimSpace(last.post.Message)) => NoPosts

C6_Witness ==
    /\ EvEligible
    /\ Called(last.out, "Translate")
    /\ ~last.tr.err
    /\ ~last.tr.panic
    /\ last.tr.text # last.post.Message
    /\ TrimSpace(last.tr.text) = TrimSpace(last.post.Message)
    /\ NoPosts

\* C7: one invocation calls CreatePost at most once; for an eligible event
\* whose provider resolves it calls Translate, and when Translate succeeds
\* (it returns a text: no error, no panic) with a text that differs from the
\* original after trimming, it calls CreatePost exactly once.
C7_AtMostOncePost ==
    last.handled =>
        /\ Len(last.out.created) <= 1
        /\ Len(SelectSeq(last.out.calls, LAMBDA c : c = "CreatePost")) = Len(last.out.created)
        /\ (EvEligible /\ configuration.Provider # "") =>
               /\ Called(last.out, "Translate")
               /\ (/\ ~last.tr.err
                   /\ ~last.tr.panic
                   /\ TrimSpace(last.tr.text) # TrimSpace(last.post.Message)) =>
                      Len(last.out.created) = 1

C7_Witness ==
    /\ EvEligible
    /\ ~last.tr.err
    /\ ~last.tr.panic
    /\ TrimSpace(last.tr.text) # TrimSpace(last.post.Message)
    /\ Len(last.out.created) = 1

\* C8: for an otherwise eligible event, a failed provider resolution or an
\* error from Translate creates no post and writes exactly one log entry;
\* the invocation completes.
C8_ProviderFailureLogged ==
    EvEligible =>
        /\ configuration.Provider = "" =>
               /\ NoPosts
               /\ last.out.logs = <<"Failed to get translation provider">>
               /\ ~Called(last.out, "Translate")
               /\ ~last.panic
        /\ (configuration.Provider # "" /\ last.tr.err) =>
               /\ Called(last.out, "Translate")
               /\ NoPosts
               /\ last.out.logs = <<"Failed to translate message">>
               /\ ~last.panic

C8_Witness ==
    /\ EvEligible
    /\ Called(last.out, "Translate")
    /\ last.tr.err
    /\ ~last.panic
    /\ NoPosts
    /\ Len(last.out.logs) = 1

\* C9 (as claimed): the created post is threaded to the original message:
\* its RootId is the original's Id when the original is a thread root, and
\* the original's RootId when the original is itself a reply.
C9_ThreadedToOriginal ==
    \A i \in DOMAIN last.out.created :
        last.out.created[i].RootId =
            IF last.post.RootId = "" THEN last.post.Id ELSE last.post.RootId

\* the header "[<sourceDisplay> -> <targetLanguage>]" of a reply
Header(userInfo) ==
    <<"[", IF userInfo.SourceLanguage = "auto" THEN "detected" ELSE userInfo.SourceLanguage,
      " ", "→", " ", userInfo.TargetLanguage, "]">>

Contains(s, part) ==
    \E i \in 1 .. (Len(s) + 1 - Len(part)) : SubSeq(s, i, i + Len(part) - 1) = part

EndsWith(s, part) ==
    /\ Len(part) <= Len(s)
    /\ SubSeq(s, Len(s) - Len(part) + 1, Len(s)) = part

ExpectedUsername ==
    IF configuration.BotUsername = "" THEN "autotranslate-bot" ELSE configuration.BotUsername

\* C10 (as claimed): the created post has the original's ChannelId and
\* UserId, the configured bot username as override username, and a Message
\* made of the header followed by the translated text.
C10_ReplyInMessage ==
    \A i \in DOMAIN last.out.created :
        LET p == last.out.created[i] IN
        /\ p.ChannelId = last.post.ChannelId
        /\ p.UserId = last.post.UserId
        /\ p.Props["override_username"] = ExpectedUsername
        /\ Contains(p.Message, Header(EvInfo))
        /\ EndsWith(p.Message, last.tr.text)

\* C10 (amended): the created post has the original's ChannelId and UserId
\* and the configured bot username as override username; the header and the
\* translated text are in the Message ("**[src -> tgt]**", a newline, the
\* text) in the plain-text revisions, and in the one attachment (Pretext
\* with the header, Text the translation) under an empty Message in the
\* attachment revision.
C10_ReplyContent ==
    \A i \in DOMAIN last.out.created :
        LET p == last.out.created[i] IN
        /\ p.ChannelId = last.post.ChannelId
        /\ p.UserId = last.post.UserId
        /\ p.Props["override_username"] = ExpectedUsername
        /\ build \in {"server", "part_001"} =>
               p.Message = <<"**">> \o Header(EvInfo) \o <<"**", "\n">> \o last.tr.text
        /\ build = "part_000" =>
               /\ p.Message = <<>>
               /\ Len(p.Props["attachments"]) = 1
               /\ p.Props["attachments"][1].Text = last.tr.text
               /\ EndsWith(p.Props["attachments"][1].Pretext, Header(EvInfo))

C10_Witness ==
    /\ last.handled
    /\ Len(last.out.created) = 1
    /\ EvInfo.SourceLanguage = "auto"
    /\ configuration.BotUsername = ""
    /\ last.out.created[1].Props["override_username"] = "autotranslate-bot"

\* C17 (as claimed): the marker check comes before user resolution, the
\* preference lookup and provider resolution: for a post carrying the marker
\* the hook makes no GetUser call, reads no preference, calls no Translate
\* and writes no log entry, even when the author cannot be resolved.
C17_MarkerCheckedFirst ==
    (last.handled /\ EvMarked) =>
        /\ ~Called(last.out, "GetUser")
        /\ ~Called(last.out, "getUserInfo")
        /\ ~Called(last.out, "Translate")
        /\ NoLogs

\* C18 (as claimed): Translate is called only for a non-system, unmarked post
\* of a resolvable non-bot author with a stored, activated preference; an
\* event rejected by an earlier check causes no provider resolution, no
\* Translate call and no CreatePost call.
C18_ShortCircuit ==
    last.handled =>
        /\ Called(last.out, "Translate") => EvEligible
        /\ ~EvEligible =>
               /\ ~Called(last.out, "getTranslationProvider")
               /\ ~Called(last.out, "Translate")
               /\ ~Called(last.out, "CreatePost")

\* C19: when CreatePost fails the hook writes exactly one log entry, has
\* called CreatePost once for the event (no retry), and the invocation
\* completes.
C19_CreatePostFailure ==
    (last.handled /\ last.cpErr) =>
        /\ last.out.logs = <<"Failed to post translated message">>
        /\ Len(SelectSeq(last.out.calls, LAMBDA c : c = "CreatePost")) = 1
        /\ Len(last.out.created) = 1
        /\ ~last.panic

C19_Witness ==
    /\ last.handled
    /\ last.cpErr
    /\ Called(last.out, "CreatePost")
    /\ Len(last.out.logs) = 1

(* --------------------- claims about the sanitizer --------------------- *)

\* C11 (as claimed): Clean is idempotent: cleaning what Clean returned
\* returns it unchanged.
C11_CleanIdempotent ==
    cl.phase = "recleaned" => cl.twice = cl.once

\* C12: whatever Clean returns has no leading and no trailing white space.
C12_CleanTrimmed ==
    /\ (cl.phase \in {"cleaned", "recleaned"} /\ ~cl.once.panic /\ cl.once.text # <<>>) =>
           /\ cl.once.text[1] \notin WhiteSpace
           /\ cl.once.text[Len(cl.once.text)] \notin WhiteSpace
    /\ (cl.phase = "recleaned" /\ ~cl.twice.panic /\ cl.twice.text # <<>>) =>
           /\ cl.twice.text[1] \notin WhiteSpace
           /\ cl.twice.text[Len(cl.twice.text)] \notin WhiteSpace

\* a raw output whose text is cut at a Note block
\* that follows a space
C12_Witness ==
    /\ cl.phase = "cleaned"
    /\ ~cl.once.panic
    /\ cl.raw = <<"a", " ", "\n", "\n", "Note:">>
    /\ cl.once.text = <<"a">>

Labels ==
    { <<"Translation:", " ">>, <<"Translated", " ", "text:", " ">>,
      <<"Here", " ", "is", " ", "the", " ", "translation:", " ">>,
      <<"The", " ", "translation", " ", "is:", " ">>,
      <<"Output:", " ">>, <<"Answer:", " ">>, <<"Result:", " ">> }

StartsWith(s, part) == Len(part) <= Len(s) /\ SubSeq(s, 1, Len(part)) = part

HasPart(s, part) ==
    \E i \in 1 .. (Len(s) + 1 - Len(part)) : SubSeq(s, i, i + Len(part) - 1) = part

\* t has no surrounding white space, no leading label, no enclosing quotes
\* and no Note/Explanation marker
PlainText(t) ==
    /\ t # <<>> => (t[1] \notin WhiteSpace /\ t[Len(t)] \notin WhiteSpace)
    /\ \A l \in Labels : ~StartsWith(t, l)
    /\ ~(t # <<>> /\ t[1] = t[Len(t)] /\ t[1] \in {"\"", "'"})
    /\ ~HasPart(t, <<"\n", "\n", "Note:">>)
    /\ ~HasPart(t, <<"\n", "\n", "Explanation:">>)

\* C13: Clean of a listed label followed by a plain text t in one pair of
\* double quotes returns t.
C13_LabelAndQuotesStripped ==
    cl.phase \in {"cleaned", "recleaned"} =>
        \A l \in Labels :
            LET n == Len(cl.raw)
                t == SubSeq(cl.raw, Len(l) + 2, n - 1)
            IN (/\ n >= Len(l) + 2
                /\ StartsWith(cl.raw, l \o <<"\"">>)
                /\ cl.raw[n] = "\""
                /\ PlainText(t)) => cl.once = [panic |-> FALSE, text |-> t]

\* Clean("Translation: \"a\"") = "a", with "a" standing for Hello
C13_Witness ==
    /\ cl.phase = "cleaned"
    /\ cl.raw = <<"Translation:", " ", "\"", "a", "\"">>
    /\ cl.once = [panic |-> FALSE, text |-> <<"a">>]

(* ------------------------ claims about the providers ------------------ *)

\* the number of places of s holding the token tok
Count(s, tok) == Cardinality({i \in DOMAIN s : s[i] = tok})

\* the prompt of the request sent: the prompt field of a completion request,
\* the user turn of a chat request
SentPrompt ==
    IF llm.variant = "litellm" THEN llm.sent[1].body.messages[2].content
    ELSE llm.sent[1].body.prompt

\* C14: with source language "auto" the prompt sent to the backend has no
\* "from" clause and does not name "Auto-detect" as a language to translate
\* from: outside the text to translate, "from" does not occur, and
\* "Auto-detect" occurs only as the name of a target that is itself "auto".
C14_NoFromClauseForAuto ==
    (llm.phase = "done" /\ llm.sent # <<>> /\ llm.sourceLang = "auto") =>
        /\ Count(SentPrompt, "from") = Count(llm.text, "from")
        /\ Count(SentPrompt, "Auto-detect") =
               Count(llm.text, "Auto-detect") + (IF llm.targetLang = "auto" THEN 1 ELSE 0)

\* a completion request for auto-detected text to Korean: it asks to
\* translate "to Korean"
C14_Witness ==
    /\ llm.phase = "done"
    /\ llm.variant = "vllm"
    /\ llm.sourceLang = "auto"
    /\ llm.targetLang = "ko"
    /\ llm.text = <<"hello">>
    /\ Len(llm.sent) = 1
    /\ SubSeq(llm.sent[1].body.prompt, 1, 5) = <<"Translate", " ", "to", " ", "Korean">>
    /\ Count(llm.sent[1].body.prompt, "from") = 0

\* C15: a backend answer with a non-200 status, an undecodable body or an
\* empty choice list makes Translate return an error and the empty text,
\* without a panic.
C15_BadAnswerIsError ==
    (/\ llm.phase = "done"
     /\ ~llm.resp.transportErr
     /\ \/ llm.resp.status # 200
        \/ ~llm.resp.decodes
        \/ llm.resp.choices = <<>>) =>
        /\ ~llm.result.panic
        /\ llm.result.err # ""
        /\ llm.result.text = <<>>

\* the chat provider got a well-formed answer without choices and reported it
C15_Witness ==
    /\ llm.phase = "done"
    /\ llm.variant = "litellm"
    /\ llm.resp.status = 200
    /\ llm.resp.decodes
    /\ llm.resp.choices = <<>>
    /\ llm.result = [panic |-> FALSE, text |-> <<>>,
                     err |-> "no translation returned from LiteLLM"]

\* C20: a Translate that returns without error returns the cleaned first
\* choice, whatever the provider (for a first choice the cleaning returns on).
C20_ReturnsCleaned ==
    (/\ llm.phase = "done"
     /\ ~llm.result.panic
     /\ llm.result.err = ""
     /\ ~cleanTranslationOutput(llm.resp.choices[1]).panic) =>
        llm.result.text = cleanTranslationOutput(llm.resp.choices[1]).text

(* ---------------------- claims about concurrency ---------------------- *)

\* s and t hold the same elements the same number of times
SameBag(s, t) ==
    \A x \in {s[i] : i \in DOMAIN s} \cup {t[i] : i \in DOMAIN t} : Count(s, x) = Count(t, x)

\* the posts invocation i sends when it runs alone, from entry to return
Alone(i) ==
    WholeInvocation(conc.inv[i].post, configuration, store, conc.tr[i],
                    conc.cpErr[i]).created

\* both invocations have started and both have ended: each has returned, or
\* the process has ended under them
BothEnded ==
    /\ \A i \in Invocations : conc.inv[i].pc # "start"
    /\ conc.phase = "crashed" \/ \A i \in Invocations : conc.inv[i].pc = "done"

\* C16 (as claimed): when two invocations that ran interleaved have both
\* ended, the posts sent are, as a multiset, those of running the first and
\* then the second alone, and those of running the second and then the first.
C16_SameAsSequential ==
    BothEnded =>
        /\ SameBag(conc.created, Alone(1) \o Alone(2))
        /\ SameBag(conc.created, Alone(2) \o Alone(1))

\* the part of C16 that holds: when neither invocation panics, the posts
\* sent are those of the two invocations run alone
SameAsSequentialWithoutPanic ==
    (conc.phase = "run" /\ \A i \in Invocations : conc.inv[i].pc = "done") =>
        /\ SameBag(conc.created, Alone(1) \o Alone(2))
        /\ SameBag(conc.created, Alone(2) \o Alone(1))

(* ------------------- more claims about the providers ------------------ *)

\* C21 as stated: the user turn of the chat request is the prompt
\* createTranslationPrompt returns for the same text and languages.
C21_UserTurnIsBuilderPrompt ==
    (llm.phase = "done" /\ llm.variant = "litellm" /\ llm.sent # <<>>) =>
        llm.sent[1].body.messages[2].content =
            createTranslationPrompt(llm.text, llm.sourceLang, llm.targetLang)

\* the sentence that closes the instruction of the completion prompt
ReplyOnly ==
    <<".", " ", "Reply", " ", "with", " ", "ONLY", " ", "the", " ", "translation.">>

\* C21 amended: the user turn of the chat request has the translate clause
\* (language names and clarifications) and the text of the prompt
\* createTranslationPrompt returns, with a colon where that prompt has the
\* sentence ". Reply with ONLY the translation."; the two turns are the
\* system turn and this user turn.
C21_UserTurnIsBuilderClause ==
    (llm.phase = "done" /\ llm.variant = "litellm" /\ llm.sent # <<>>) =>
        LET prompt == createTranslationPrompt(llm.text, llm.sourceLang, llm.targetLang)
            n == Len(prompt) - Len(llm.text) - 2 - Len(ReplyOnly)
            clause == SubSeq(prompt, 1, n)
        IN /\ n > 0
           /\ prompt = clause \o ReplyOnly \o <<"\n", "\n">> \o llm.text
           /\ Len(llm.sent[1].body.messages) = 2
           /\ llm.sent[1].body.messages[1].role = "system"
           /\ llm.sent[1].body.messages[2].role = "user"
           /\ llm.sent[1].body.messages[2].content = clause \o <<":", "\n", "\n">> \o llm.text

\* a chat request to translate "hello" from Korean to English
C21_Witness ==
    /\ llm.phase = "done"
    /\ llm.variant = "litellm"
    /\ llm.sourceLang = "ko"
    /\ llm.targetLang = "en"
    /\ llm.text = <<"hello">>
    /\ Len(llm.sent) = 1
    /\ llm.sent[1].body.messages[2].content =
           <<"Translate", " ", "from", " ", "Korean", " ", "(U+D55CU+AD6DU+C5B4,", " ",
             "using", " ", "Hangul", " ", "script,", " ", "NOT", " ", "Chinese)", " ", "to",
             " ", "English", " ", "(English)", ":", "\n", "\n", "hello">>

(* -------------------- more claims about the sanitizer ----------------- *)

Quotes == {"\"", "'"}

Markers == { <<"\n", "\n", "Note:">>, <<"\n", "\n", "Explanation:">> }

\* t has no surrounding white space, no leading label and no marker: only
\* the quote step of Clean can change it
OnlyQuotes(t) ==
    /\ t # <<>> => (t[1] \notin WhiteSpace /\ t[Len(t)] \notin WhiteSpace)
    /\ \A l \in Labels : ~StartsWith(t, l)
    /\ \A m \in Markers : ~HasPart(t, m)

\* C22: of a text that only the quote step can change, Clean removes the
\* first and the last token when they are the same straight quote (and trims
\* what is left), and returns every other text as it is: inner quotes and a
\* pair of two different quotes stay.
C22_OneMatchingLayer ==
    (cl.phase \in {"cleaned", "recleaned"} /\ OnlyQuotes(cl.raw)) =>
        LET n == Len(cl.raw) IN
        /\ (n >= 2 /\ cl.raw[1] \in Quotes /\ cl.raw[n] = cl.raw[1]) =>
               cl.once = [panic |-> FALSE, text |-> TrimSpace(SubSeq(cl.raw, 2, n - 1))]
        /\ (n = 0 \/ cl.raw[1] \notin Quotes \/ cl.raw[n] # cl.raw[1]) =>
               cl.once = [panic |-> FALSE, text |-> cl.raw]

\* 'a' in double quotes in single quotes: only the single quotes go
C22_Witness ==
    /\ cl.phase = "cleaned"
    /\ cl.raw = <<"'", "\"", "a", "\"", "'">>
    /\ cl.once = [panic |-> FALSE, text |-> <<"\"", "a", "\"">>]

\* where the first marker of t starts, Len(t) + 1 when t has none
FirstMarker(t) ==
    LET at == { i \in 1 .. Len(t) :
                  \E m \in Markers : i + Len(m) - 1 <= Len(t) /\ SubSeq(t, i, i + Len(m) - 1) = m }
    IN IF at = {} THEN Len(t) + 1 ELSE CHOOSE i \in at : \A j \in at : i <= j

\* C23: what Clean returns holds neither marker, and of a text without
\* surrounding white space, leading label and enclosing quotes it is the part
\* before the first marker of either kind, trimmed.
C23_TruncatedAtFirstMarker ==
    (cl.phase \in {"cleaned", "recleaned"} /\ ~cl.once.panic) =>
        /\ \A m \in Markers : ~HasPart(cl.once.text, m)
        /\ (/\ cl.raw # <<>>
            /\ cl.raw[1] \notin WhiteSpace \cup Quotes
            /\ cl.raw[Len(cl.raw)] \notin WhiteSpace
            /\ \A l \in Labels : ~StartsWith(cl.raw, l)) =>
               cl.once.text = TrimSpace(SubSeq(cl.raw, 1, FirstMarker(cl.raw) - 1))

\* an Explanation block followed by a Note block: both are cut off
C23_Witness ==
    /\ cl.phase = "cleaned"
    /\ cl.raw = <<"a", "\n", "\n", "Explanation:", "a", "\n", "\n", "Note:", "a">>
    /\ cl.once = [panic |-> FALSE, text |-> <<"a">>]

\* C26: Clean returns a text for every input.
C26_CleanTotal ==
    cl.phase \in {"cleaned", "recleaned"} => ~cl.once.panic

(* --------------------- claims about the request ----------------------- *)

\* C24: the request of a completion or chat provider has the Authorization
\* header "Bearer <apiKey>" when the provider's apiKey is not empty, and no
\* Authorization header when it is empty.
C24_BearerOnlyWithKey ==
    (llm.phase = "done" /\ llm.variant \in {"vllm", "litellm", "vllm_api"}) =>
        \A i \in DOMAIN llm.sent :
            /\ llm.provider.apiKey # "" =>
                   /\ "Authorization" \in DOMAIN llm.sent[i].headers
                   /\ llm.sent[i].headers.Authorization = <<"Bearer ", llm.provider.apiKey>>
            /\ llm.provider.apiKey = "" => "Authorization" \notin DOMAIN llm.sent[i].headers

\* a chat request of a provider without a key went out without the header
C24_Witness ==
    /\ llm.phase = "done"
    /\ llm.variant = "litellm"
    /\ llm.provider.apiKey = ""
    /\ Len(llm.sent) = 1
    /\ DOMAIN llm.sent[1].headers = {"ContentType"}

(* ----------------- claims about the managed-API provider -------------- *)

\* C25: the managed-API provider hands the source and target codes to the
\* backend as it got them, and when the session cannot be made, the
\* credentials are refused, the call fails or the answer has no translated
\* text, Translate returns an error and does not panic.
C25_PassThroughAndErrors ==
    (llm.phase = "done" /\ llm.variant = "aws") =>
        /\ \A i \in DOMAIN llm.sent :
               /\ llm.sent[i].SourceLanguageCode = llm.sourceLang
               /\ llm.sent[i].TargetLanguageCode = llm.targetLang
        /\ (\/ llm.aws.sessionErr
            \/ llm.provider.accessKeyID = ""
            \/ llm.provider.secretAccessKey = ""
            \/ llm.aws.transportErr
            \/ ~llm.aws.hasText) =>
               (~llm.result.panic /\ llm.result.err # "")

(* ------------------------ more claims about the hook ------------------ *)

\* C27: when Translate succeeds with a text that is empty or white space
\* only, for an original message that is not, no post is created.
C27_NoEmptyReply ==
    (/\ last.handled
     /\ Called(last.out, "Translate")
     /\ ~last.tr.err
     /\ ~last.tr.panic
     /\ TrimSpace(last.tr.text) = <<>>
     /\ TrimSpace(last.post.Message) # <<>>) => NoPosts

(* --------------------- claims about the HTTP endpoint ----------------- *)

\* C28: with an invalid configuration ServeHTTP writes the not-configured
\* answer and nothing else, runs no handler, calls neither the provider nor
\* the preference store, and leaves the stored preferences as they were.
C28_NotConfiguredOnly ==
    (web.phase = "serving" /\ web.n > 0 /\ ~web.configValid) =>
        /\ web.out.writes = <<[status |-> 501, body |-> "This plugin is not configured."]>>
        /\ web.out.handlers = <<>>
        /\ web.out.calls = <<>>
        /\ store = web.before

\* the request names a requester and its body decodes to a valid preference
\* of that requester
OwnValidInfo(req) ==
    /\ req.userID # ""
    /\ req.body # <<>>
    /\ req.body[1].UserID # ""
    /\ req.body[1].SourceLanguage # ""
    /\ req.body[1].TargetLanguage # ""
    /\ req.body[1].UserID = req.userID

\* C29: a set_info request reaches setUserInfo only with a non-empty
\* Mattermost-User-ID header and a valid body whose UserID is that header;
\* a request that is rejected leaves every stored preference as it was, and
\* no request changes the preference of anybody but the requester.
C29_OnlyOwnPreference ==
    (web.phase = "serving" /\ web.n > 0 /\ web.req.path = "/api/set_info") =>
        /\ (\E i \in DOMAIN web.out.calls : web.out.calls[i] = "setUserInfo") =>
               OwnValidInfo(web.req)
        /\ ~OwnValidInfo(web.req) => store = web.before
        /\ \A u \in UserIds : u # web.req.userID => store[u] = web.before[u]

\* alice stored her own preference
C29_Witness ==
    /\ web.phase = "serving"
    /\ web.n > 0
    /\ web.req.path = "/api/set_info"
    /\ web.req.userID = "alice"
    /\ OwnValidInfo(web.req)
    /\ web.out.calls = <<"setUserInfo">>
    /\ ~web.before["alice"].found
    /\ store["alice"] = [found |-> TRUE, Activated |-> TRUE, SourceLanguage |-> "auto",
                         TargetLanguage |-> "fr"]

====
